---- MODULE Spec2Model ----
(***************************************************************************)
(* Model of src/src/execution.js (gooddata-js): the compiler from a        *)
(* visualization metadata object to an execution configuration             *)
(* (mdToExecutionConfiguration), the title truncation (getMetricTitle) and *)
(* the annotation of result headers (wrapMeasureIndexesFromMappings).      *)
(*                                                                         *)
(* Representation.  A JavaScript string that the code concatenates,        *)
(* interpolates or splits is a sequence of tokens (characters or atomic    *)
(* fragments, each bracket a token of its own, so that one string has one  *)
(* token sequence); `${a}${b}` is a \o b.  A string only compared for       *)
(* equality is a TLA+ string.  An object is a record; an optional key is   *)
(* a key that may be missing from the record's DOMAIN.  undefined, where a *)
(* string is expected, is the token "undefined" (which is also what a      *)
(* template literal prints for it).                                        *)
(*                                                                         *)
(* A local constant of the source that is read more than once is passed to *)
(* a helper operator as a parameter instead of being bound by LET, so that *)
(* the operator is expanded once.                                          *)
(***************************************************************************)
EXTENDS Integers, Sequences, FiniteSets, TLC

VARIABLES
    pc,             \* position of the modelled call
    mdObj,          \* argument of mdToExecutionConfiguration
    options,        \* its options argument
    dispatched,     \* strategies getMetricFactory returned, per measure
    metrics,        \* local `metrics` of mdToExecutionConfiguration
    config,         \* its result (or the error it threw)
    titleArgs,      \* arguments of getMetricTitle
    titleOut,       \* its result
    executionConfiguration, \* argument of getData holding metricMappings
    headers,        \* result.executionResult.headers, mutated in place
    mappingPos      \* position of forEach in wrapMeasureIndexesFromMappings

vars == <<pc, mdObj, options, dispatched, metrics, config, titleArgs, titleOut,
          executionConfiguration, headers, mappingPos>>

(***************************************************************************)
(* Bounds of the model.                                                    *)
(***************************************************************************)
MaxTitleLength == 258
MaxMeasures == 2
MaxFilters == 2
MaxHeaders == 2
MaxMappings == 2

(***************************************************************************)
(* JavaScript and lodash helpers.                                          *)
(***************************************************************************)
Undefined == "undefined"
Null == "null"

Truthy(s) == s \notin {Undefined, Null, ""}

Has(obj, key) == key \in DOMAIN obj

Last(s) == s[Len(s)]

RECURSIVE flatten(_)
flatten(ss) == IF ss = <<>> THEN <<>> ELSE Head(ss) \o flatten(Tail(ss))

RECURSIVE join(_, _)
join(ss, sep) ==
    IF ss = <<>> THEN <<>>
    ELSE IF Len(ss) = 1 THEN Head(ss)
    ELSE Head(ss) \o <<sep>> \o join(Tail(ss), sep)

\* Array.prototype.split undone: the string whose split on `sep` is `segments`.
\* An empty segment contributes no token.
unsplit(segments, sep) ==
    join([i \in 1..Len(segments) |->
            IF segments[i] = "" THEN <<>> ELSE <<segments[i]>>], sep)

\* Destructuring `[, , , prjId, , id] = uri.split('/')`: a missing position is undefined.
segment(segments, i) == IF i <= Len(segments) THEN segments[i] ELSE Undefined

toUpperCase(s) ==
    CASE s = "sum" -> "SUM"
      [] s = "avg" -> "AVG"
      [] OTHER -> s

toLowerCase(s) ==
    CASE s = "SUM" -> "sum"
      [] s = "AVG" -> "avg"
      [] OTHER -> s

md5(s) == <<"md5(">> \o s \o <<")">>

(***************************************************************************)
(* getMetricTitle and its partial applications.                            *)
(***************************************************************************)
MAX_TITLE_LENGTH == 255

Ellipsis == "<U+2026>"

POP_SUFFIX == <<" ", "-", " ", "p", "r", "e", "v", "i", "o", "u", "s", " ",
                "y", "e", "a", "r">>

substring(s, n) ==
    IF n <= 0 THEN <<>> ELSE IF n >= Len(s) THEN s ELSE SubSeq(s, 1, n)

getMetricTitleTooLong(suffix, title) ==
    LET maxLength == MAX_TITLE_LENGTH - Len(suffix)
    IN  IF Len(title) > 0 /\ Len(title) > maxLength
        THEN IF title[Len(title)] = ")"
             THEN substring(title, maxLength - 1) \o <<Ellipsis, ")">> \o suffix
             ELSE substring(title, maxLength - 1) \o <<Ellipsis>> \o suffix
        ELSE title \o suffix

getMetricTitle(suffix, title) ==
    LET maxLength == MAX_TITLE_LENGTH - Len(suffix)
    IN  IF Len(title) > 0 /\ Len(title) > maxLength
        THEN IF title[Len(title)] = ")"
             THEN substring(title, maxLength - 2) \o <<Ellipsis, ")">> \o suffix
             ELSE substring(title, maxLength - 1) \o <<Ellipsis>> \o suffix
        ELSE title \o suffix

getBaseMetricTitle(title) == getMetricTitle(<<>>, title)

getPoPMetricTitle(title) == getMetricTitle(POP_SUFFIX, title)

CONTRIBUTION_METRIC_FORMAT == <<"#", ",", "#", "#", "0", ".", "0", "0", "%">>

(***************************************************************************)
(* Measure predicates and expression builders.                             *)
(***************************************************************************)
allFiltersEmpty(item) ==
    \A i \in 1..Len(item.measureFilters) :
        item.measureFilters[i].attributeElements = <<>>

isDerived(measure) ==
    measure.type = "fact" \/ measure.type = "attribute" \/ ~allFiltersEmpty(measure)

\* null is the empty sequence: `filter(.., e => !!e)` drops it like the empty string.
getFilterExpression(listAttributeFilter) ==
    IF listAttributeFilter.attributeElements = <<>> THEN <<>>
    ELSE <<"[", listAttributeFilter.attribute, "]", " ">>
         \o (IF listAttributeFilter.negativeSelection THEN <<"NOT ">> ELSE <<>>)
         \o <<"IN ", "(">>
         \o join([i \in 1..Len(listAttributeFilter.attributeElements) |->
                    <<"[">> \o unsplit(listAttributeFilter.attributeElements[i], "=")
                    \o <<"]">>], ",")
         \o <<")">>

\* filter(map(measureFilters, getFilterExpression), e => !!e)
whereFilters(measureFilters) ==
    SelectSeq([i \in 1..Len(measureFilters) |-> getFilterExpression(measureFilters[i])],
              LAMBDA e : e # <<>>)

\* notEmpty(where) ? ` WHERE ${where.join(' AND ')}` : ''
whereExpression(where) ==
    IF where # <<>> THEN <<" WHERE ">> \o join(where, " AND ") ELSE <<>>

aggregated(aggregation, objectUri) ==
    IF aggregation # ""
    THEN <<aggregation, "(", "[">> \o objectUri \o <<"]", ")">>
    ELSE <<"[">> \o objectUri \o <<"]">>

getGeneratedMetricExpression(item) ==
    <<"SELECT ">>
    \o aggregated(toUpperCase(IF item.aggregation = Undefined THEN ""
                              ELSE item.aggregation),
                  unsplit(item.objectUri, "/"))
    \o whereExpression(whereFilters(item.measureFilters))

percentExpression(metricExpressionWithoutFilters, attributeUri, where) ==
    <<"SELECT ", "(">> \o metricExpressionWithoutFilters \o where
    \o <<")", " / ", "(">> \o metricExpressionWithoutFilters
    \o <<" BY ALL ", "[", attributeUri, "]">> \o where \o <<")">>

getPercentMetricExpression(category, measure) ==
    percentExpression(
        IF isDerived(measure)
        THEN getGeneratedMetricExpression([measure EXCEPT !.measureFilters = <<>>])
        ELSE <<"SELECT ", "[">> \o unsplit(measure.objectUri, "/") \o <<"]">>,
        category.attribute,
        whereExpression(whereFilters(measure.measureFilters)))

getPoPExpression(attribute, metricExpression) ==
    <<"SELECT ">> \o metricExpression
    \o <<" FOR PREVIOUS ", "(", "[", attribute.attribute, "]", ")">>

(***************************************************************************)
(* Generated-metric identifiers.  In the source the identifier function    *)
(* receives an expression creator and a hasher and computes                *)
(* hasher(expressionCreator(item)) itself; here the caller passes that     *)
(* hash.                                                                   *)
(***************************************************************************)
getGeneratedMetricHashNoFormat(title, format, expression) ==
    md5(expression \o <<"#">> \o title)

getGeneratedMetricHash(title, format, expression) ==
    md5(expression \o <<"#">> \o title \o <<"#">> \o format)

getGeneratedMetricIdentifier(item, aggregation, hash) ==
    <<item.type, "_", segment(item.objectUri, 4), "_", segment(item.objectUri, 6),
      ".generated.">>
    \o hash
    \o (IF item.measureFilters = <<>> \/ allFiltersEmpty(item) THEN <<>>
        ELSE <<"_filtered">>)
    \o <<"_", aggregation>>

(***************************************************************************)
(* Date lookup in the bucket.  A bucket filter is a record with a `kind`   *)
(* ("listAttributeFilter" or "dateFilter") standing for its only key.      *)
(***************************************************************************)
NoDate == [attribute |-> Undefined]

isDateCategory(category) == category.type = "date"

isDateFilter(item) == item.kind = "dateFilter"

Min(S) == CHOOSE i \in S : \A j \in S : i <= j

\* lodash find: the element at the first of `positions`, `default` for undefined.
firstAt(s, positions, default) == IF positions = {} THEN default ELSE s[Min(positions)]

getDateCategory(buckets) ==
    firstAt(buckets.categories,
            {i \in 1..Len(buckets.categories) : isDateCategory(buckets.categories[i])},
            NoDate)

getDateFilter(buckets) ==
    firstAt(buckets.filters,
            {i \in 1..Len(buckets.filters) : isDateFilter(buckets.filters[i])},
            NoDate)

\* a || b
firstDefined(a, b) == IF a # NoDate THEN a ELSE b

getDate(buckets) == firstDefined(getDateCategory(buckets), getDateFilter(buckets))

(***************************************************************************)
(* Sorting of a metric.  A measure's sort is [kind |-> "undefined"],       *)
(* [kind |-> "string", value |-> ..] or                                    *)
(* [kind |-> "object", direction |-> .., sortByPoP |-> ..].                *)
(***************************************************************************)
getMetricSort(sort, isPoPMetric) ==
    IF sort.kind = "string" THEN sort.value
    ELSE IF isPoPMetric = (sort.kind = "object" /\ sort.sortByPoP)
    THEN IF sort.kind = "object" THEN sort.direction ELSE Undefined
    ELSE Null

(***************************************************************************)
(* The five strategies.  Each returns [threw, value]: `threw` when the     *)
(* strategy ends with a TypeError, `value` the descriptors it returns.     *)
(***************************************************************************)
Returned(descriptors) == [threw |-> FALSE, value |-> descriptors]

Threw == [threw |-> TRUE, value |-> <<>>]

generatedDescriptor(identifier, expression, title, format, sort, meta) ==
    [element |-> identifier,
     definition |-> [identifier |-> identifier, expression |-> expression,
                     title |-> title, format |-> format],
     sort |-> sort,
     meta |-> meta]

\* A descriptor whose identifier hashes its own title, format and expression.
generated(measure, aggregation, expression, title, format, sort, meta) ==
    generatedDescriptor(
        getGeneratedMetricIdentifier(measure, aggregation,
            getGeneratedMetricHash(title, format, expression)),
        expression, title, format, sort, meta)

derivedMetric(measure, measureIndex) ==
    generated(measure,
              toLowerCase(IF measure.aggregation = Undefined THEN "base"
                          ELSE measure.aggregation),
              getGeneratedMetricExpression(measure),
              getBaseMetricTitle(measure.title),
              measure.format,
              getMetricSort(measure.sort, FALSE),
              [measureIndex |-> measureIndex])

createDerivedMetric(measure, buckets, measureIndex) ==
    Returned(<<derivedMetric(measure, measureIndex)>>)

createPureMetricWithDefinition(measure, buckets, measureIndex) ==
    createDerivedMetric(measure, buckets, measureIndex)

createPureMetric(measure, buckets, measureIndex) ==
    Returned(<<[element |-> unsplit(measure.objectUri, "/"),
                sort |-> getMetricSort(measure.sort, FALSE),
                meta |-> [measureIndex |-> measureIndex]]>>)

contributionMetric(measure, buckets, measureIndex) ==
    generated(measure,
              "percent",
              getPercentMetricExpression(buckets.categories[1], measure),
              getBaseMetricTitle(measure.title),
              CONTRIBUTION_METRIC_FORMAT,
              getMetricSort(measure.sort, FALSE),
              [measureIndex |-> measureIndex])

\* first(getCategories(mdObj)) is undefined in a bucket without categories, and
\* getPercentMetricExpression destructures it: a TypeError.
createContributionMetric(measure, buckets, measureIndex) ==
    IF buckets.categories = <<>> THEN Threw
    ELSE Returned(<<contributionMetric(measure, buckets, measureIndex)>>)

\* The PoP descriptor over `base` (`generated` of the source, or the pure metric),
\* followed by `base`.
popOver(measure, buckets, measureIndex, format, metricExpression, base) ==
    << generated(measure,
                 "pop",
                 getPoPExpression(getDate(buckets), metricExpression),
                 getPoPMetricTitle(measure.title),
                 format,
                 getMetricSort(measure.sort, TRUE),
                 [measureIndex |-> measureIndex, isPoP |-> TRUE]),
       base >>

popOverGenerated(measure, buckets, measureIndex, format, base) ==
    popOver(measure, buckets, measureIndex, format,
            <<"(">> \o base.definition.expression \o <<")">>, base)

popMetrics(measure, buckets, measureIndex) ==
    IF isDerived(measure)
    THEN popOverGenerated(measure, buckets, measureIndex, measure.format,
                          derivedMetric(measure, measureIndex))
    ELSE popOver(measure, buckets, measureIndex, measure.format,
                 <<"[">> \o unsplit(measure.objectUri, "/") \o <<"]">>,
                 createPureMetric(measure, buckets, measureIndex).value[1])

createPoPMetricBaseFirst(measure, buckets, measureIndex) ==
    Returned(<<popMetrics(measure, buckets, measureIndex)[2],
               popMetrics(measure, buckets, measureIndex)[1]>>)

createPoPMetric(measure, buckets, measureIndex) ==
    Returned(popMetrics(measure, buckets, measureIndex))

createContributionPoPMetric(measure, buckets, measureIndex) ==
    IF buckets.categories = <<>> THEN Threw
    ELSE Returned(popOverGenerated(measure, buckets, measureIndex,
                                   CONTRIBUTION_METRIC_FORMAT,
                                   contributionMetric(measure, buckets, measureIndex)))

(***************************************************************************)
(* Rule table and dispatch.  The Rules class (utils/rules) is not part of  *)
(* the sources at hand: `match` follows the specification, which returns   *)
(* the strategy of the first registered rule whose every predicate holds   *)
(* and nothing when no rule matches.                                       *)
(***************************************************************************)
isPoP(measure) == measure.showPoP

isContribution(measure) == measure.showInPercent

isCalculatedMeasure(measure) == measure.type = "metric"

holds(predicate, measure) ==
    CASE predicate = "isPoP" -> isPoP(measure)
      [] predicate = "isContribution" -> isContribution(measure)
      [] predicate = "isDerived" -> isDerived(measure)
      [] predicate = "isCalculatedMeasure" -> isCalculatedMeasure(measure)

rulesPoPFirst ==
    << [predicates |-> <<"isPoP">>, factory |-> "createPoPMetric"],
       [predicates |-> <<"isPoP", "isContribution">>,
        factory |-> "createContributionPoPMetric"],
       [predicates |-> <<"isContribution">>, factory |-> "createContributionMetric"],
       [predicates |-> <<"isDerived">>, factory |-> "createDerivedMetric"],
       [predicates |-> <<"isCalculatedMeasure">>, factory |-> "createPureMetric"] >>

rules ==
    << [predicates |-> <<"isPoP", "isContribution">>,
        factory |-> "createContributionPoPMetric"],
       [predicates |-> <<"isPoP">>, factory |-> "createPoPMetric"],
       [predicates |-> <<"isContribution">>, factory |-> "createContributionMetric"],
       [predicates |-> <<"isDerived">>, factory |-> "createDerivedMetric"],
       [predicates |-> <<"isCalculatedMeasure">>, factory |-> "createPureMetric"] >>

matches(rule, measure) ==
    \A p \in 1..Len(rule.predicates) : holds(rule.predicates[p], measure)

match(ruleList, measure) ==
    firstAt(ruleList, {r \in 1..Len(ruleList) : matches(ruleList[r], measure)},
            [factory |-> Undefined]).factory

\* The factory, or Undefined where `invariant` throws "Unknown factory for: ..".
getMetricFactory(measure) == match(rules, measure)

apply(factory, measure, buckets, measureIndex) ==
    CASE factory = "createContributionPoPMetric" ->
            createContributionPoPMetric(measure, buckets, measureIndex)
      [] factory = "createPoPMetric" -> createPoPMetric(measure, buckets, measureIndex)
      [] factory = "createContributionMetric" ->
            createContributionMetric(measure, buckets, measureIndex)
      [] factory = "createDerivedMetric" ->
            createDerivedMetric(measure, buckets, measureIndex)
      [] factory = "createPureMetric" -> createPureMetric(measure, buckets, measureIndex)

(***************************************************************************)
(* Filters of the bucket to the `where` object.  An object with computed   *)
(* keys is a function on its keys; {} is the function with no key.         *)
(***************************************************************************)
EmptyObject == <<>>

\* lodash assign(object, source): the keys of `source` overwrite.
assign(object, source) == source @@ object

attributeFilterToWhereNeverNot(f) ==
    f.displayForm :> ("$in" :> [i \in 1..Len(f.attributeElements) |->
                                  [id |-> Last(f.attributeElements[i])]])

attributeFilterToWhere(f) ==
    IF f.negativeSelection
    THEN f.displayForm :> ("$not" :> ("$in" :> [i \in 1..Len(f.attributeElements) |->
                                                  [id |-> Last(f.attributeElements[i])]]))
    ELSE f.displayForm :> ("$in" :> [i \in 1..Len(f.attributeElements) |->
                                       [id |-> Last(f.attributeElements[i])]])

dateUri(f) ==
    IF Truthy(f.dimension) THEN f.dimension
    ELSE IF Truthy(f.dataSet) THEN f.dataSet
    ELSE f.dataset

dateFilterToWhere(f) ==
    dateUri(f) :> [between |-> <<f.from, f.to>>, granularity |-> f.granularity]

isDateFilterExecutable(item) ==
    item.kind = "dateFilter" /\ item.from # Undefined /\ item.to # Undefined

isAttributeFilterExecutable(item) ==
    item.kind = "listAttributeFilter" /\ item.attributeElements # <<>>

\* [...objects].reduce(assign, {})
RECURSIVE reduceAssign(_)
reduceAssign(objects) ==
    IF objects = <<>> THEN EmptyObject
    ELSE assign(reduceAssign(SubSeq(objects, 1, Len(objects) - 1)), Last(objects))

\* map(executableFilters, attributeFilterToWhere)
attributeFilters(executableFilters) ==
    [i \in 1..Len(executableFilters) |-> attributeFilterToWhere(executableFilters[i])]

\* map(filter(filters, ...isDateFilterExecutable), dateFilterToWhere)
dateFilters(executableFilters) ==
    [i \in 1..Len(executableFilters) |-> dateFilterToWhere(executableFilters[i])]

getWhere(filters) ==
    assign(reduceAssign(dateFilters(SelectSeq(filters, isDateFilterExecutable))),
           "$and" :> attributeFilters(SelectSeq(filters, isAttributeFilterExecutable)))

(***************************************************************************)
(* Ordering.                                                               *)
(***************************************************************************)
compact(s) == SelectSeq(s, LAMBDA e : e # <<>>)

first(s) == IF s = <<>> THEN <<Undefined>> ELSE s[1]

elements(items) == [i \in 1..Len(items) |-> items[i].element]

sortToOrderBy(item) == [column |-> item.element, direction |-> item.sort]

\* map(sorted, sortToOrderBy)
sortsToOrderBy(sorted) == [i \in 1..Len(sorted) |-> sortToOrderBy(sorted[i])]

getOrderByNoOverride(metricItems, categories, type) ==
    sortsToOrderBy(SelectSeq(categories \o metricItems, LAMBDA item : Truthy(item.sort)))

getOrderBy(metricItems, categories, type) ==
    IF type = "bar" /\ metricItems # <<>>
    THEN <<[column |-> first(compact(elements(metricItems))), direction |-> "desc"]>>
    ELSE sortsToOrderBy(SelectSeq(categories \o metricItems,
                                  LAMBDA item : Truthy(item.sort)))

(***************************************************************************)
(* mdToExecutionConfiguration.                                             *)
(***************************************************************************)
categoryToElement(category) ==
    [element |-> <<category.displayForm>>, sort |-> category.sort]

\* utils/definitions is not part of the sources at hand; per the specification
\* it deduplicates and orders stably: every definition once, at its first place.
sortDefinitions(definitions) ==
    LET F[i \in 0..Len(definitions)] ==
            IF i = 0 THEN <<>>
            ELSE IF \A j \in 1..(i - 1) : definitions[j] # definitions[i]
            THEN Append(F[i - 1], definitions[i])
            ELSE F[i - 1]
    IN  F[Len(definitions)]

NoMetrics(i) ==
    [error |-> "none", measureIndex |-> i, dispatched |-> <<>>, metrics |-> <<>>]

prepend(factory, made, rest) ==
    [rest EXCEPT !.dispatched = <<factory>> \o @, !.metrics = made \o @]

\* flatten(map(measures, (measure, index) => getMetricFactory(measure)(..))) from
\* position `i` on: the first measure whose dispatch or strategy throws ends the map.
RECURSIVE mapMeasures(_, _, _)
mapMade(factory, made, measures, buckets, i) ==
    IF made.threw
    THEN [NoMetrics(i - 1) EXCEPT !.error = "TypeError", !.dispatched = <<factory>>]
    ELSE prepend(factory, made.value, mapMeasures(measures, buckets, i + 1))

mapFactory(factory, measures, buckets, i) ==
    IF factory = Undefined
    THEN [NoMetrics(i - 1) EXCEPT !.error = "UnknownFactory"]
    ELSE mapMade(factory, apply(factory, measures[i], buckets, i - 1),
                 measures, buckets, i)

mapMeasures(measures, buckets, i) ==
    IF i > Len(measures) THEN NoMetrics(i - 1)
    ELSE mapFactory(getMetricFactory(measures[i]), measures, buckets, i)

\* map(metrics, m => ({ element: m.element, ...m.meta }))
toMapping(m) == ("element" :> m.element) @@ m.meta

toMappings(metricItems) == [i \in 1..Len(metricItems) |-> toMapping(metricItems[i])]

definitionsIn(defined) == [i \in 1..Len(defined) |-> defined[i].definition]

\* compact(map(metrics, 'definition'))
definitionsOf(metricItems) ==
    definitionsIn(SelectSeq(metricItems, LAMBDA m : Has(m, "definition")))

assemble(columns, type, categories, filters, metricItems) ==
    [status |-> "ok",
     columns |-> columns,
     orderBy |-> getOrderBy(metricItems, categories, type),
     definitions |-> sortDefinitions(definitionsOf(metricItems)),
     where |-> IF columns # <<>> THEN getWhere(filters) ELSE EmptyObject,
     metricMappings |-> toMappings(metricItems)]

withCategories(type, categories, filters, metricItems) ==
    assemble(compact(elements(categories \o metricItems)),
             type, categories, filters, metricItems)

\* map(categories, categoryToElement)
categoriesToElements(categories) ==
    [i \in 1..Len(categories) |-> categoryToElement(categories[i])]

configuration(mdObject, opts, metricItems) ==
    IF opts.removeDateItems
    THEN withCategories(
             mdObject.type,
             categoriesToElements(
                 SelectSeq(mdObject.buckets.categories, LAMBDA c : c.type # "date")),
             SelectSeq(mdObject.buckets.filters, LAMBDA item : ~isDateFilter(item)),
             metricItems)
    ELSE withCategories(mdObject.type,
                        categoriesToElements(mdObject.buckets.categories),
                        mdObject.buckets.filters,
                        metricItems)

\* The buckets the strategies read (getDate, first category): those of mdObj,
\* whatever the options.
metricsBucketsWithoutDateItems(mdObject, opts) ==
    IF opts.removeDateItems
    THEN [mdObject.buckets EXCEPT
             !.categories = SelectSeq(@, LAMBDA c : c.type # "date"),
             !.filters = SelectSeq(@, LAMBDA item : ~isDateFilter(item))]
    ELSE mdObject.buckets

metricsBuckets(mdObject, opts) == mdObject.buckets

compiled(mdObject, opts, mapped) ==
    [dispatched |-> mapped.dispatched,
     metrics |-> mapped.metrics,
     config |-> IF mapped.error # "none"
                THEN [status |-> "error", error |-> mapped.error,
                      measureIndex |-> mapped.measureIndex]
                ELSE configuration(mdObject, opts, mapped.metrics)]

\* The call with its locals: the strategies dispatched, `metrics`, the result.
compile(mdObject, opts) ==
    compiled(mdObject, opts,
             mapMeasures(mdObject.buckets.measures, metricsBuckets(mdObject, opts), 1))

mdToExecutionConfiguration(mdObject, opts) == compile(mdObject, opts).config

(***************************************************************************)
(* wrapMeasureIndexesFromMappings, one step per mapping of its forEach.    *)
(***************************************************************************)
findHeaderForMappingFnAnyHeader(mapping, header) ==
    mapping.element = header.id \/ mapping.element = header.uri

findHeaderForMappingFn(mapping, header) ==
    /\ (mapping.element = header.id \/ mapping.element = header.uri)
    /\ ~Has(header, "measureIndex")

\* `header.isPoP = mapping.isPoP` with no isPoP in the mapping stores undefined,
\* which reads as an absent key.
annotate(header, mapping) ==
    ("measureIndex" :> mapping.measureIndex)
    @@ (IF Has(mapping, "isPoP") THEN "isPoP" :> mapping.isPoP ELSE EmptyObject)
    @@ header

\* find(headers, partial(findHeaderForMappingFn, mapping)) as a position; 0: none.
firstPosition(positions) == IF positions = {} THEN 0 ELSE Min(positions)

findHeader(headerList, mapping) ==
    firstPosition({h \in 1..Len(headerList) :
                      findHeaderForMappingFn(mapping, headerList[h])})

(***************************************************************************)
(* Inputs.                                                                 *)
(***************************************************************************)
SeqsUpTo(S, n) == UNION {[1..k -> S] : k \in 0..n}

Uri(projectId, objectId) == <<"", "gdc", "md", projectId, "obj", objectId>>

NoSort == [kind |-> "undefined"]

MeasureFilter(attributeElements, negativeSelection) ==
    [attribute |-> "/gdc/md/p1/obj/attr1", displayForm |-> "/gdc/md/p1/obj/df1",
     negativeSelection |-> negativeSelection, attributeElements |-> attributeElements]

Element(id) == <<"/gdc/md/p1/obj/attr1/elements?id", id>>

Category(type, displayForm, attribute, sort) ==
    [type |-> type, displayForm |-> displayForm, attribute |-> attribute, sort |-> sort]

DateCategory == Category("date", "/gdc/md/p1/obj/dateDf", "/gdc/md/p1/obj/dateAttr", Undefined)

AttributeCategory ==
    Category("attribute", "/gdc/md/p1/obj/df2", "/gdc/md/p1/obj/attr2", "asc")

AttributeFilter(displayForm, attributeElements, negativeSelection) ==
    [kind |-> "listAttributeFilter", attribute |-> "/gdc/md/p1/obj/attr1",
     displayForm |-> displayForm, negativeSelection |-> negativeSelection,
     attributeElements |-> attributeElements]

DateFilter(dimension, dataSet, dataset, from, to) ==
    [kind |-> "dateFilter", attribute |-> "/gdc/md/p1/obj/filterDateAttr",
     dimension |-> dimension, dataSet |-> dataSet, dataset |-> dataset,
     granularity |-> "GDC.time.year", from |-> from, to |-> to]

MdObject(type, measures, categories, filters) ==
    [type |-> type,
     buckets |-> [measures |-> measures, categories |-> categories, filters |-> filters]]

EmptyMdObject == MdObject("table", <<>>, <<>>, <<>>)

NoConfig == [status |-> "none"]

NoOptions == [removeDateItems |-> FALSE]

CompilerIdle ==
    /\ mdObj = EmptyMdObject
    /\ options = NoOptions
    /\ dispatched = <<>>
    /\ metrics = <<>>
    /\ config = NoConfig

TitleIdle == titleArgs = [suffix |-> <<>>, title |-> <<>>] /\ titleOut = <<>>

WrapIdle == executionConfiguration = EmptyObject /\ headers = <<>> /\ mappingPos = 1

CompilerStart ==
    /\ pc = "start"
    /\ options = NoOptions
    /\ dispatched = <<>>
    /\ metrics = <<>>
    /\ config = NoConfig
    /\ TitleIdle
    /\ WrapIdle

(***************************************************************************)
(* Actions.                                                                *)
(***************************************************************************)
\* mdToExecutionConfiguration(mdObj, options), called with or without removeDateItems.
Compile ==
    /\ pc = "start"
    /\ \E removeDateItems \in BOOLEAN :
          /\ options' = [removeDateItems |-> removeDateItems]
          /\ \E call \in {compile(mdObj, [removeDateItems |-> removeDateItems])} :
                /\ dispatched' = call.dispatched
                /\ metrics' = call.metrics
                /\ config' = call.config
                /\ pc' = IF call.config.status = "ok" THEN "compiled" ELSE "failed"
    /\ UNCHANGED <<mdObj, titleArgs, titleOut, executionConfiguration, headers, mappingPos>>

\* getMetricTitle(suffix, title).
GetMetricTitle ==
    /\ pc = "title"
    /\ titleOut' = getMetricTitle(titleArgs.suffix, titleArgs.title)
    /\ pc' = "titled"
    /\ UNCHANGED <<mdObj, options, dispatched, metrics, config, titleArgs,
                   executionConfiguration, headers, mappingPos>>

\* One iteration of metricMappings.forEach in wrapMeasureIndexesFromMappings.
WrapMapping ==
    /\ pc = "wrapping"
    /\ Has(executionConfiguration, "metricMappings")
    /\ mappingPos <= Len(executionConfiguration.metricMappings)
    /\ \E h \in {findHeader(headers, executionConfiguration.metricMappings[mappingPos])} :
          headers' = IF h = 0 THEN headers
                     ELSE [headers EXCEPT
                              ![h] = annotate(@, executionConfiguration.metricMappings[mappingPos])]
    /\ mappingPos' = mappingPos + 1
    /\ UNCHANGED <<pc, mdObj, options, dispatched, metrics, config, titleArgs, titleOut,
                   executionConfiguration>>

\* `return headers`: no metricMappings, or the forEach is over.
WrapReturn ==
    /\ pc = "wrapping"
    /\ \/ ~Has(executionConfiguration, "metricMappings")
       \/ /\ Has(executionConfiguration, "metricMappings")
          /\ mappingPos > Len(executionConfiguration.metricMappings)
    /\ pc' = "wrapped"
    /\ UNCHANGED <<mdObj, options, dispatched, metrics, config, titleArgs, titleOut,
                   executionConfiguration, headers, mappingPos>>

(***************************************************************************)
(* Spec: the compiler on buckets whose measures range over every           *)
(* combination of type, showPoP, showInPercent and measure filters.        *)
(***************************************************************************)
Revenue == <<"R", "e", "v">>

NumberFormat == <<"#", ",", "#", "#", "0">>

MeasureTypes == {"fact", "attribute", "metric", "other"}

RecognizedTypes == {"fact", "attribute", "metric"}

MeasureFilterLists ==
    { <<>>, <<MeasureFilter(<<>>, FALSE)>>, <<MeasureFilter(<<Element("1")>>, FALSE)>> }

DispatchMeasures ==
    { [objectUri |-> Uri("p1", "5"), type |-> type, aggregation |-> Undefined,
       title |-> Revenue, format |-> NumberFormat, sort |-> NoSort,
       showPoP |-> showPoP, showInPercent |-> showInPercent,
       measureFilters |-> measureFilters] :
        type \in MeasureTypes, showPoP \in BOOLEAN, showInPercent \in BOOLEAN,
        measureFilters \in MeasureFilterLists }

Init ==
    /\ mdObj \in { MdObject("table", measures, categories, <<>>) :
                     measures \in SeqsUpTo(DispatchMeasures, MaxMeasures),
                     categories \in {<<>>, <<DateCategory>>} }
    /\ CompilerStart

Next == Compile

Spec == Init /\ [][Next]_vars

(***************************************************************************)
(* SpecOrderBy: the compiler on buckets whose measures and categories      *)
(* carry every kind of sort setting, for a bar chart and for a table.      *)
(***************************************************************************)
MeasureSorts ==
    { NoSort,
      [kind |-> "string", value |-> "asc"],
      [kind |-> "object", direction |-> "asc", sortByPoP |-> FALSE],
      [kind |-> "object", direction |-> "desc", sortByPoP |-> TRUE] }

OrderMeasures ==
    { [objectUri |-> Uri("p1", objectId), type |-> kind.type, aggregation |-> Undefined,
       title |-> Revenue, format |-> NumberFormat, sort |-> sort,
       showPoP |-> kind.showPoP, showInPercent |-> FALSE, measureFilters |-> <<>>] :
        objectId \in {"5", "6"}, sort \in MeasureSorts,
        kind \in { [type |-> "metric", showPoP |-> FALSE],
                   [type |-> "metric", showPoP |-> TRUE],
                   [type |-> "fact", showPoP |-> FALSE] } }

InitOrderBy ==
    /\ mdObj \in { MdObject(type, measures, categories, <<>>) :
                     type \in {"bar", "table"},
                     measures \in SeqsUpTo(OrderMeasures, MaxMeasures),
                     categories \in {<<>>, <<AttributeCategory>>, <<DateCategory>>} }
    /\ CompilerStart

SpecOrderBy == InitOrderBy /\ [][Next]_vars

(***************************************************************************)
(* SpecWhere: the compiler on buckets whose filters range over executable  *)
(* and non-executable attribute and date filters, with and without date    *)
(* categories and a PoP measure.                                           *)
(***************************************************************************)
BucketFilters ==
    { AttributeFilter("/gdc/md/p1/obj/df1", <<Element("1"), Element("2")>>, TRUE),
      AttributeFilter("/gdc/md/p1/obj/df1", <<Element("3")>>, FALSE),
      AttributeFilter("/gdc/md/p1/obj/df2", <<>>, FALSE),
      DateFilter("d1", Undefined, Undefined, "2020", "2021"),
      DateFilter(Undefined, "d1", Undefined, "2019", "2020"),
      DateFilter(Undefined, Undefined, "d2", "2018", "2019"),
      DateFilter("d2", Undefined, Undefined, "2020", Undefined) }

SortedDateCategory ==
    Category("date", "/gdc/md/p1/obj/dateDf", "/gdc/md/p1/obj/dateAttr", "desc")

PlainMetric ==
    [objectUri |-> Uri("p1", "5"), type |-> "metric", aggregation |-> Undefined,
     title |-> Revenue, format |-> NumberFormat, sort |-> NoSort,
     showPoP |-> FALSE, showInPercent |-> FALSE, measureFilters |-> <<>>]

PoPMetric == [PlainMetric EXCEPT !.showPoP = TRUE]

InitWhere ==
    /\ mdObj \in { MdObject(type, measures, categories, filters) :
                     type \in {"bar", "table"},
                     measures \in {<<>>, <<PlainMetric>>, <<PoPMetric>>},
                     categories \in {<<>>, <<SortedDateCategory>>, <<AttributeCategory>>,
                                     <<SortedDateCategory, AttributeCategory>>},
                     filters \in { fs \in SeqsUpTo(BucketFilters, MaxFilters) :
                                     \A i, j \in 1..Len(fs) : i # j => fs[i] # fs[j] } }
    /\ CompilerStart

SpecWhere == InitWhere /\ [][Next]_vars

(***************************************************************************)
(* SpecIdentifier: the compiler on pairs of measures that differ in type,  *)
(* aggregation, title, format, showPoP and measure filters, so that pairs  *)
(* of generated definitions agree or differ in each of title, format and   *)
(* expression.                                                             *)
(***************************************************************************)
IdentifierMeasures ==
    { [objectUri |-> Uri("p1", "5"), type |-> type, aggregation |-> aggregation,
       title |-> title, format |-> format, sort |-> NoSort,
       showPoP |-> showPoP, showInPercent |-> FALSE,
       measureFilters |-> measureFilters] :
        type \in RecognizedTypes, aggregation \in {Undefined, "", "sum"},
        title \in {<<"R">>, <<"R", "#", "0">>},
        format \in {<<"0">>, <<"0", "#", "0">>},
        showPoP \in BOOLEAN,
        measureFilters \in {<<>>, <<MeasureFilter(<<Element("1")>>, FALSE)>>} }

InitIdentifier ==
    /\ mdObj \in { MdObject("table", <<one, other>>, <<AttributeCategory, DateCategory>>, <<>>) :
                     one \in IdentifierMeasures, other \in IdentifierMeasures }
    /\ CompilerStart

SpecIdentifier == InitIdentifier /\ [][Next]_vars

(***************************************************************************)
(* SpecTitle: getMetricTitle on titles of every length up to               *)
(* MaxTitleLength, ending in ')' or not, with each suffix the compiler     *)
(* uses.                                                                   *)
(***************************************************************************)
TitleOfLength(n, last) == [i \in 1..n |-> IF i = n THEN last ELSE "a"]

InitTitle ==
    /\ pc = "title"
    /\ titleArgs \in { [suffix |-> suffix, title |-> TitleOfLength(n, last)] :
                         suffix \in {<<>>, POP_SUFFIX},
                         n \in 0..MaxTitleLength,
                         last \in {"a", ")"} }
    /\ titleOut = <<>>
    /\ CompilerIdle
    /\ WrapIdle

NextTitle == GetMetricTitle

SpecTitle == InitTitle /\ [][NextTitle]_vars

(***************************************************************************)
(* SpecWrap: wrapMeasureIndexesFromMappings on result headers and metric   *)
(* mappings that share elements, and without metricMappings.               *)
(***************************************************************************)
Mappings ==
    { [element |-> element, measureIndex |-> measureIndex] :
        element \in {"e1", "e2"}, measureIndex \in {0, 1} }
    \cup
    { [element |-> element, measureIndex |-> measureIndex, isPoP |-> TRUE] :
        element \in {"e1", "e2"}, measureIndex \in {0, 1} }

Headers ==
    { [id |-> "e1", uri |-> "u1"], [id |-> "h2", uri |-> "e1"],
      [id |-> "e2", uri |-> "u2"], [id |-> "h3", uri |-> "u3"] }

InitWrap ==
    /\ pc = "wrapping"
    /\ executionConfiguration \in
          {EmptyObject} \cup
          { [metricMappings |-> metricMappings] :
              metricMappings \in SeqsUpTo(Mappings, MaxMappings) }
    /\ headers \in SeqsUpTo(Headers, MaxHeaders)
    /\ mappingPos = 1
    /\ CompilerIdle
    /\ TitleIdle

NextWrap == WrapMapping \/ WrapReturn

SpecWrap == InitWrap /\ [][NextWrap]_vars

(***************************************************************************)
(* Claims checked under Spec.                                              *)
(***************************************************************************)
measuresOf(mdObject) == mdObject.buckets.measures

hasSelectedElements(measure) ==
    \E f \in 1..Len(measure.measureFilters) :
        measure.measureFilters[f].attributeElements # <<>>

\* The priority order as the claim states it.
ExpectedStrategy(measure) ==
    IF measure.showPoP /\ measure.showInPercent THEN "createContributionPoPMetric"
    ELSE IF measure.showPoP THEN "createPoPMetric"
    ELSE IF measure.showInPercent THEN "createContributionMetric"
    ELSE IF measure.type \in {"fact", "attribute"} \/ hasSelectedElements(measure)
    THEN "createDerivedMetric"
    ELSE IF measure.type = "metric" THEN "createPureMetric"
    ELSE "none"

SameFlags(m1, m2) ==
    /\ m1.showPoP = m2.showPoP
    /\ m1.showInPercent = m2.showInPercent
    /\ m1.type = m2.type
    /\ hasSelectedElements(m1) = hasSelectedElements(m2)

\* C1: every measure of a recognized type (fact, attribute, metric) gets a
\* strategy from getMetricFactory, never the unknown-factory failure; the strategy
\* is the first of ContributionPoP, PoP, Contribution, Derived, Pure whose
\* predicates hold; and two measures with the same flags get the same strategy.
C1_DispatchFirstMatch ==
    pc # "start" =>
        /\ \A i \in 1..Len(dispatched) :
              measuresOf(mdObj)[i].type \in RecognizedTypes =>
                  dispatched[i] = ExpectedStrategy(measuresOf(mdObj)[i])
        /\ (config.status = "error" /\ config.error = "UnknownFactory") =>
              /\ Len(dispatched) = config.measureIndex
              /\ measuresOf(mdObj)[config.measureIndex + 1].type \notin RecognizedTypes
        /\ config.status = "ok" => Len(dispatched) = Len(measuresOf(mdObj))
        /\ \A i, j \in 1..Len(dispatched) :
              SameFlags(measuresOf(mdObj)[i], measuresOf(mdObj)[j]) =>
                  dispatched[i] = dispatched[j]

C1_Witness ==
    /\ pc = "compiled"
    /\ Len(dispatched) = 2
    /\ dispatched[1] = "createContributionPoPMetric"
    /\ dispatched[2] = "createDerivedMetric"
    /\ measuresOf(mdObj)[2].type = "metric"

EntriesOf(factory) ==
    IF factory \in {"createPoPMetric", "createContributionPoPMetric"} THEN 2 ELSE 1

\* Number of metricMappings entries of the measures before position i.
RECURSIVE EntriesBefore(_, _)
EntriesBefore(factories, i) ==
    IF i <= 1 THEN 0
    ELSE EntriesBefore(factories, i - 1) + EntriesOf(factories[i - 1])

\* C2: in the metricMappings of a compiled configuration the measure at index i
\* contributes, after the entries of the measures before it, two consecutive
\* entries when its strategy is PoP or contribution+PoP (the PoP wrapper with
\* isPoP true, then the base metric without isPoP) and one entry without isPoP
\* otherwise, each with measureIndex i.
C2_MappingsPerMeasure ==
    config.status = "ok" =>
        /\ Len(config.metricMappings) = EntriesBefore(dispatched, Len(dispatched) + 1)
        /\ \A i \in 1..Len(dispatched) :
              LET at == EntriesBefore(dispatched, i)
                  mm == config.metricMappings
              IN  IF EntriesOf(dispatched[i]) = 2
                  THEN /\ Has(mm[at + 1], "isPoP") /\ mm[at + 1].isPoP = TRUE
                       /\ mm[at + 1].measureIndex = i - 1
                       /\ Last(mm[at + 1].element) = "pop"
                       /\ ~Has(mm[at + 2], "isPoP")
                       /\ mm[at + 2].measureIndex = i - 1
                       /\ Last(mm[at + 2].element) # "pop"
                  ELSE /\ ~Has(mm[at + 1], "isPoP")
                       /\ mm[at + 1].measureIndex = i - 1

C2_Witness ==
    /\ pc = "compiled"
    /\ dispatched = <<"createPoPMetric", "createDerivedMetric">>
    /\ Len(config.metricMappings) = 3
    /\ config.metricMappings[3].measureIndex = 1

IsPlainMetricBucket(mdObject) ==
    /\ Len(mdObject.buckets.measures) = 1
    /\ mdObject.buckets.measures[1].type = "metric"
    /\ ~mdObject.buckets.measures[1].showPoP
    /\ ~mdObject.buckets.measures[1].showInPercent
    /\ mdObject.buckets.measures[1].measureFilters = <<>>
    /\ mdObject.buckets.categories = <<>>
    /\ mdObject.buckets.filters = <<>>

\* C7 as stated: a bucket with one measure of type metric, without showPoP,
\* showInPercent and measure filters, and with no category and no bucket filter,
\* compiles to a where object with no entry.
C7_WhereHasNoEntry ==
    (pc # "start" /\ IsPlainMetricBucket(mdObj)) =>
        /\ config.status = "ok"
        /\ DOMAIN config.where = {}

\* C7 amended: such a bucket compiles; its columns are the measure's objectUri
\* alone, it has no definition, and its where object has the one entry $and, an
\* empty list: no filter clause.
C7_PlainMetric ==
    (pc # "start" /\ IsPlainMetricBucket(mdObj)) =>
        /\ config.status = "ok"
        /\ config.columns = <<unsplit(mdObj.buckets.measures[1].objectUri, "/")>>
        /\ config.definitions = <<>>
        /\ DOMAIN config.where = {"$and"}
        /\ config.where["$and"] = <<>>

C7_Witness ==
    /\ pc = "compiled"
    /\ IsPlainMetricBucket(mdObj)
    /\ ~options.removeDateItems
    /\ Len(config.columns) = 1

Unmatched(measure) ==
    /\ ~measure.showPoP
    /\ ~measure.showInPercent
    /\ measure.type \notin RecognizedTypes
    /\ ~hasSelectedElements(measure)

\* C8: when some measure of the bucket satisfies none of the registered
\* predicate sets, the call ends with the unknown-factory error for such a
\* measure and returns no configuration.
C8_UnmatchedMeasureFailsDispatch ==
    (pc # "start" /\ \E i \in 1..Len(measuresOf(mdObj)) : Unmatched(measuresOf(mdObj)[i]))
        => /\ config.status = "error"
           /\ config.error = "UnknownFactory"
           /\ Unmatched(measuresOf(mdObj)[config.measureIndex + 1])

(***************************************************************************)
(* Claim checked under SpecOrderBy.                                        *)
(***************************************************************************)
\* C3: for a bar chart with at least one metric descriptor, orderBy is one entry,
\* descending, on the first non-empty element of the metric descriptors, whatever
\* the sorts of the categories and measures.
C3_BarOrderBy ==
    (config.status = "ok" /\ mdObj.type = "bar" /\ metrics # <<>>) =>
        /\ Len(config.orderBy) = 1
        /\ config.orderBy[1].direction = "desc"
        /\ \E k \in 1..Len(metrics) :
              /\ metrics[k].element # <<>>
              /\ \A j \in 1..(k - 1) : metrics[j].element = <<>>
              /\ config.orderBy[1].column = metrics[k].element

C3_Witness ==
    /\ pc = "compiled"
    /\ mdObj.type = "bar"
    /\ Len(metrics) = 2
    /\ metrics[1].sort = "asc"
    /\ metrics[2].sort = "asc"
    /\ metrics[1].element # metrics[2].element
    /\ mdObj.buckets.categories = <<AttributeCategory>>
    /\ config.orderBy = <<[column |-> metrics[1].element, direction |-> "desc"]>>

(***************************************************************************)
(* Claims checked under SpecWhere.                                         *)
(***************************************************************************)
IsExecutableAttributeFilter(f) ==
    f.kind = "listAttributeFilter" /\ Len(f.attributeElements) > 0

IsExecutableDateFilter(f) ==
    f.kind = "dateFilter" /\ f.from # Undefined /\ f.to # Undefined

\* The dimension / data-set uri of a date filter.
DateKey(f) ==
    IF f.dimension # Undefined THEN f.dimension
    ELSE IF f.dataSet # Undefined THEN f.dataSet
    ELSE f.dataset

ElementIds(f) == [i \in 1..Len(f.attributeElements) |-> [id |-> Last(f.attributeElements[i])]]

AttributeClause(f) ==
    IF f.negativeSelection THEN f.displayForm :> ("$not" :> ("$in" :> ElementIds(f)))
    ELSE f.displayForm :> ("$in" :> ElementIds(f))

DateClause(f) == [between |-> <<f.from, f.to>>, granularity |-> f.granularity]

\* The filters getWhere receives: removeDateItems drops the date filters.
FiltersInEffect ==
    IF options.removeDateItems
    THEN SelectSeq(mdObj.buckets.filters, LAMBDA f : f.kind # "dateFilter")
    ELSE mdObj.buckets.filters

AndClauses ==
    LET executable == SelectSeq(FiltersInEffect, IsExecutableAttributeFilter)
    IN  [i \in 1..Len(executable) |-> AttributeClause(executable[i])]

ExecutableDates == SelectSeq(FiltersInEffect, IsExecutableDateFilter)

DateKeys == DOMAIN config.where \ {"$and"}

\* C4 as stated, for a call without removeDateItems: with columns, where has one
\* $and entry per executable attribute filter, in filter order, and one top-level
\* key per executable date filter, holding that filter's $between and $granularity.
C4_OneKeyPerDateFilter ==
    (config.status = "ok" /\ config.columns # <<>> /\ ~options.removeDateItems) =>
        /\ config.where["$and"] = AndClauses
        /\ DateKeys = {DateKey(ExecutableDates[i]) : i \in 1..Len(ExecutableDates)}
        /\ Cardinality(DateKeys) = Len(ExecutableDates)
        /\ \A i \in 1..Len(ExecutableDates) :
              config.where[DateKey(ExecutableDates[i])] = DateClause(ExecutableDates[i])

\* C4 amended: with columns, where has one $and entry per executable attribute
\* filter, in filter order, keyed by its display form and wrapped in $not exactly
\* when negativeSelection is set, and one top-level key per distinct uri of the
\* executable date filters, holding the $between and $granularity of the last
\* such filter with that uri; non-executable filters, and with removeDateItems
\* the date filters, contribute nothing.
C4_WhereClauses ==
    (config.status = "ok" /\ config.columns # <<>>) =>
        /\ config.where["$and"] = AndClauses
        /\ DateKeys = {DateKey(ExecutableDates[i]) : i \in 1..Len(ExecutableDates)}
        /\ \A i \in 1..Len(ExecutableDates) :
              (\A j \in (i + 1)..Len(ExecutableDates) :
                    DateKey(ExecutableDates[j]) # DateKey(ExecutableDates[i]))
              => config.where[DateKey(ExecutableDates[i])] = DateClause(ExecutableDates[i])

C4_Witness ==
    /\ pc = "compiled"
    /\ ~options.removeDateItems
    /\ Len(mdObj.buckets.filters) = 2
    /\ mdObj.buckets.filters[1] = DateFilter("d1", Undefined, Undefined, "2020", "2021")
    /\ mdObj.buckets.filters[2] =
          AttributeFilter("/gdc/md/p1/obj/df1", <<Element("1"), Element("2")>>, TRUE)
    /\ config.columns # <<>>
    /\ DateKeys = {"d1"}
    /\ Len(config.where["$and"]) = 1

DateColumns ==
    {<<mdObj.buckets.categories[i].displayForm>> :
        i \in {c \in 1..Len(mdObj.buckets.categories) :
                  mdObj.buckets.categories[c].type = "date"}}

AndOf(where) == IF "$and" \in DOMAIN where THEN where["$and"] ELSE <<>>

WithoutOption == mdToExecutionConfiguration(mdObj, NoOptions)

\* What both statements of C9 share: the call fails with the option exactly when
\* it fails without it; columns and orderBy are those compiled without the option
\* less the date categories; where has no date-filter key; definitions and
\* metricMappings are those compiled without the option.
C9_Frame(base) ==
    /\ config.status = base.status
    /\ config.status = "ok" =>
          /\ config.columns = SelectSeq(base.columns, LAMBDA c : c \notin DateColumns)
          /\ config.orderBy =
                SelectSeq(base.orderBy, LAMBDA o : o.column \notin DateColumns)
          /\ \A f \in 1..Len(mdObj.buckets.filters) :
                mdObj.buckets.filters[f].kind = "dateFilter" =>
                    DateKey(mdObj.buckets.filters[f]) \notin DOMAIN config.where
          /\ config.definitions = base.definitions
          /\ config.metricMappings = base.metricMappings

\* C9 as stated: removeDateItems changes only the category part of columns, the
\* category entries of orderBy and the date clauses of where; so the $and clauses
\* of where are those compiled without the option.
C9_OnlyDateItemsChange ==
    (pc # "start" /\ options.removeDateItems) =>
        /\ C9_Frame(WithoutOption)
        /\ config.status = "ok" => AndOf(config.where) = AndOf(WithoutOption.where)

\* C9 amended: as stated while a column remains; when the option leaves no
\* column (no measure and only date categories) where is the empty object, its
\* attribute clauses dropped too.
C9_RemoveDateItems ==
    (pc # "start" /\ options.removeDateItems) =>
        /\ C9_Frame(WithoutOption)
        /\ config.status = "ok" =>
              IF config.columns # <<>>
              THEN AndOf(config.where) = AndOf(WithoutOption.where)
              ELSE config.where = EmptyObject

C9_Witness ==
    /\ pc = "compiled"
    /\ options.removeDateItems
    /\ mdObj.buckets.measures = <<PoPMetric>>
    /\ mdObj.buckets.categories = <<SortedDateCategory, AttributeCategory>>
    /\ mdObj.type = "table"
    /\ Len(mdObj.buckets.filters) = 2
    /\ IsExecutableDateFilter(mdObj.buckets.filters[1])
    /\ IsExecutableAttributeFilter(mdObj.buckets.filters[2])
    /\ Len(config.columns) = 3
    /\ Len(WithoutOption.columns) = 4
    /\ DOMAIN config.where = {"$and"}

(***************************************************************************)
(* Claim checked under SpecIdentifier.                                     *)
(***************************************************************************)
GeneratedDefinitions ==
    {metrics[i].definition : i \in {g \in 1..Len(metrics) : Has(metrics[g], "definition")}}

Differences(d1, d2) ==
    Cardinality({k \in {"title", "format", "expression"} : d1[k] # d2[k]})

\* An identifier less its leading type and its trailing aggregation token.
Unqualified(identifier) == SubSeq(identifier, 2, Len(identifier) - 1)

\* C5 as stated: two generated definitions with equal title, format and
\* expression have equal identifiers, and two that differ in exactly one of the
\* three have different identifiers.
C5_EqualTriplesEqualIdentifiers ==
    \A d1, d2 \in GeneratedDefinitions :
        /\ Differences(d1, d2) = 0 => d1.identifier = d2.identifier
        /\ Differences(d1, d2) = 1 => d1.identifier # d2.identifier

\* C5 amended: two generated definitions with equal title, format and expression
\* have identifiers that are equal except possibly in the leading measure type
\* and the trailing aggregation token, and two that differ in exactly one of the
\* three have different identifiers.
C5_IdentifierFollowsTriple ==
    \A d1, d2 \in GeneratedDefinitions :
        /\ Differences(d1, d2) = 0 => Unqualified(d1.identifier) = Unqualified(d2.identifier)
        /\ Differences(d1, d2) = 1 => d1.identifier # d2.identifier

C5_Witness ==
    /\ pc = "compiled"
    /\ \E d1, d2 \in GeneratedDefinitions :
          /\ Differences(d1, d2) = 0
          /\ d1.identifier # d2.identifier
          /\ Unqualified(d1.identifier) = Unqualified(d2.identifier)

(***************************************************************************)
(* Claim checked under SpecTitle.                                          *)
(***************************************************************************)
\* C6: getMetricTitle never returns more than 255 characters, and a title of at
\* most 255 - suffix.length characters is returned followed by the suffix, with no
\* truncation marker.
C6_TitleWithinLimit ==
    pc = "titled" =>
        /\ Len(titleOut) <= 255
        /\ Len(titleArgs.title) <= 255 - Len(titleArgs.suffix) =>
              /\ titleOut = titleArgs.title \o titleArgs.suffix
              /\ \A i \in 1..Len(titleOut) : titleOut[i] # Ellipsis

C6_Witness ==
    /\ pc = "titled"
    /\ titleArgs.suffix = POP_SUFFIX
    /\ Len(titleArgs.title) = 256
    /\ Last(titleArgs.title) = ")"
    /\ Len(titleOut) = 255
    /\ \E i \in 1..Len(titleOut) : titleOut[i] = Ellipsis

(***************************************************************************)
(* Claim checked under SpecWrap.                                           *)
(***************************************************************************)
\* The headers a mapping may annotate: id or uri is the mapping's element and
\* measureIndex is still undefined.
Annotatable(mapping) ==
    {h \in 1..Len(headers) :
        /\ (headers[h].id = mapping.element \/ headers[h].uri = mapping.element)
        /\ "measureIndex" \notin DOMAIN headers[h]}

\* Header h now carries the mapping's measureIndex, and its isPoP if it has one,
\* next to its own id and uri.
AnnotatedBy(mapping, h) ==
    /\ DOMAIN headers'[h] =
          {"id", "uri", "measureIndex"} \cup (DOMAIN mapping \cap {"isPoP"})
    /\ headers'[h].id = headers[h].id
    /\ headers'[h].uri = headers[h].uri
    /\ headers'[h].measureIndex = mapping.measureIndex
    /\ "isPoP" \in DOMAIN mapping => headers'[h].isPoP = mapping.isPoP

\* A step for `mapping`: the next mapping is current, and the step annotates the first
\* header whose id or uri is the mapping's element and whose measureIndex is
\* still undefined, and no other; a header already annotated, or matching no
\* mapping, is left as it is.
StepAnnotatesFirstUndefined(mapping) ==
    /\ mappingPos' = mappingPos + 1
    /\ Len(headers') = Len(headers)
    /\ \A h \in 1..Len(headers) :
          IF Annotatable(mapping) # {} /\ h = Min(Annotatable(mapping))
          THEN AnnotatedBy(mapping, h)
          ELSE headers'[h] = headers[h]
    /\ \A h \in 1..Len(headers) :
          "measureIndex" \in DOMAIN headers[h] => headers'[h] = headers[h]

\* C10: every step of wrapMeasureIndexesFromMappings that changes the headers or
\* moves to the next mapping is such a step for the mapping at mappingPos.
C10_AnnotateFirstUndefined ==
    [][ (headers' # headers \/ mappingPos' # mappingPos) =>
            /\ "metricMappings" \in DOMAIN executionConfiguration
            /\ mappingPos \in 1..Len(executionConfiguration.metricMappings)
            /\ StepAnnotatesFirstUndefined(executionConfiguration.metricMappings[mappingPos])
      ]_vars

C10_Witness ==
    /\ pc = "wrapped"
    /\ "metricMappings" \in DOMAIN executionConfiguration
    /\ Len(executionConfiguration.metricMappings) = 2
    /\ executionConfiguration.metricMappings[1].element = "e1"
    /\ executionConfiguration.metricMappings[2].element = "e1"
    /\ executionConfiguration.metricMappings[1].measureIndex = 0
    /\ executionConfiguration.metricMappings[2].measureIndex = 1
    /\ Len(headers) = 2
    /\ "measureIndex" \in DOMAIN headers[1]
    /\ "measureIndex" \in DOMAIN headers[2]
    /\ headers[1].measureIndex = 0
    /\ headers[2].measureIndex = 1

====
